---- MODULE Spec2Model ----
(***************************************************************************)
(* Model of app.py, the Streamlit fake-news detector.                      *)
(*                                                                         *)
(* One run of the script is one request: the module body loads the model   *)
(* (line 28), main() reads the two input widgets, extracts the article of  *)
(* an entered URL through the two-method fallback chain, and, when the     *)
(* Analyze button was pressed, classifies the resolved text and displays   *)
(* the verdict.  Streamlit runs the script again on every interaction; the *)
(* only state that survives a run is the st.cache_resource cache.          *)
(*                                                                         *)
(* Strings are modelled by what the code reads of them: whether they are   *)
(* None, their length in characters (truthiness), and the number of        *)
(* whitespace-separated words (len(s.split())).  The field alarm records   *)
(* whether the text contains one of the alarm keywords of the heuristic    *)
(* overlay; no line of app.py reads it.                                    *)
(***************************************************************************)
EXTENDS Integers, Sequences, FiniteSets, TLC

VARIABLES
    pc,            \* position of the script run
    cache,         \* st.cache_resource holds the (model, vectorizer) pair
    loaded,        \* outcome of load_model() in this run
    load_error,    \* st.error("Failed to load model: ...") was shown
    text_area,     \* value of the text tab's st.text_area widget
    url_input,     \* value of the URL tab's st.text_input widget
    button,        \* the Analyze button was pressed for this run
    text_input,    \* main's local text_input (the resolved text)
    method,        \* index of the for loop over extraction_methods
    attempts,      \* extractor calls of this run, in order, with outcomes
    extract_state, \* "idle", "running", "returned" or "raised"
    article_text,  \* value returned by extract_text_from_url
    status,        \* state of the st.status box of the URL tab
    warning,       \* st.warning("Please enter some article text first")
    result,        \* what the results section displays
    calls          \* calls made in this run, in order

vars == <<pc, cache, loaded, load_error, text_area, url_input, button,
          text_input, method, attempts, extract_state, article_text,
          status, warning, result, calls>>

-----------------------------------------------------------------------------
(* Strings *)

Str(c, w, a) == [none |-> FALSE, chars |-> c, words |-> w, alarm |-> a]

None == [none |-> TRUE, chars |-> 0, words |-> 0, alarm |-> FALSE]

EmptyStr == Str(0, 0, FALSE)

\* bool(s): None and "" are falsy, every other string is truthy.
Truthy(s) == ~s.none /\ s.chars > 0

\* s.strip(): a string without words is all whitespace and strips to "".
Strip(s) == IF s.words = 0 THEN EmptyStr ELSE s

\* len(s.split())
WordCount(s) == s.words

\* "Minimum 50 words" in the comment of line 53.
MinWords == 50

\* Texts the user may have in the text tab: nothing, blanks only, a short
\* snippet with and without an alarm keyword, 50 words, a full article.
PastedTexts ==
    { EmptyStr, Str(3, 0, FALSE), Str(48, 9, TRUE), Str(48, 9, FALSE),
      Str(MinWords * 6, MinWords, FALSE), Str(3000, 500, FALSE) }

\* Texts an extractor may return: nothing, blanks only, and texts around the
\* word threshold (one of them a short snippet with an alarm keyword).
ExtractedTexts ==
    { EmptyStr, Str(2, 0, FALSE), Str(60, 10, TRUE),
      Str(MinWords * 6 - 6, MinWords - 1, FALSE),
      Str(MinWords * 6, MinWords, FALSE),
      Str(MinWords * 6 + 6, MinWords + 1, FALSE),
      Str(480, 80, FALSE) }

\* URLs the user may enter. host is the normalised host (scheme and leading
\* "www." stripped, lower-cased); app.py never computes it.
Urls ==
    { [raw |-> "", host |-> ""],
      [raw |-> "not a url", host |-> ""],
      [raw |-> "https://www.BBC.com/news/x", host |-> "bbc.com"],
      [raw |-> "http://infowars.com/a", host |-> "infowars.com"],
      [raw |-> "https://example.com/news-article", host |-> "example.com"] }

\* `if url_input:` of line 143
UrlGivenNeedsHost(u) == u.host # ""

UrlGiven(u) == u.raw # ""

-----------------------------------------------------------------------------
(* extract_text_from_url *)

extraction_methodsReversed == <<"bs4_extract", "newspaper_extract">>

extraction_methods == <<"newspaper_extract", "bs4_extract">>

\* Exceptions an extractor may raise: newspaper's download()/parse() raise
\* ArticleException; requests.get raises ConnectionError or Timeout and
\* BeautifulSoup a ParserRejectedMarkup error.
Raises(m) ==
    IF m = "newspaper_extract"
    THEN {"ArticleException"}
    ELSE {"ConnectionError", "Timeout", "ParserRejectedMarkup"}

Raise(e) == [kind |-> "raise", exc |-> e, text |-> None]

Return(t) == [kind |-> "return", exc |-> "", text |-> t]

Outcomes(m) == {Raise(e) : e \in Raises(m)} \cup {Return(t) : t \in ExtractedTexts}

\* `except Exception:` of line 55
CatchesRequestsOnly(e) == e \in {"ConnectionError", "Timeout"}

Catches(e) == e \in {"ArticleException", "ConnectionError", "Timeout", "ParserRejectedMarkup"}

\* `if result and len(result.split()) > 50` of line 53
Sufficient(t) == Truthy(t) /\ WordCount(t) > MinWords

-----------------------------------------------------------------------------
(* classify_article and the results display *)

\* Probabilities are counted in 1/100000.
One == 100000

\* predict_proba's probability of class 1 (real) for the texts of the model;
\* the probability of class 0 is the rest.
Probs == {4, 29996, 35000, 35010, 49000, 50000, 51000, 64990, 65000, 70004, 99996}

Max(a, b) == IF a >= b THEN a ELSE b

\* Python's round(): to the nearest multiple of d, halves to the even one.
RoundDiv(n, d) ==
    LET q == n \div d
        r == n % d
    IN  IF 2 * r > d \/ (2 * r = d /\ q % 2 = 1) THEN q + 1 ELSE q

\* log_model.predict: class 1 when its probability exceeds one half.
Predict(p1) == IF 2 * p1 > One THEN 1 ELSE 0

\* round(max(probabilities) * 100, 2), in hundredths of a percent
Confidence(p1) == RoundDiv(Max(p1, One - p1), 10)

\* lines 191-195
ConfidenceColor(c) ==
    IF c > 7000 THEN "#2ecc71" ELSE IF c > 5000 THEN "#f39c12" ELSE "#e74c3c"

\* lines 182-185
Verdict(prediction) == IF prediction = 1 THEN "Real" ELSE "Fake"

NoResult ==
    [shown |-> FALSE, text |-> None, verdict |-> "", confidence |-> 0, color |-> ""]

Display(text, p1) ==
    [shown |-> TRUE, text |-> text, verdict |-> Verdict(Predict(p1)),
     confidence |-> Confidence(p1), color |-> ConfidenceColor(Confidence(p1))]

\* `not text_input.strip()` of line 163
IsBlankNoStrip(t) == ~Truthy(t)

IsBlank(t) == ~Truthy(Strip(t))

-----------------------------------------------------------------------------
(* The script *)

Init ==
    /\ pc = "load"
    /\ cache = FALSE
    /\ loaded = "pending"
    /\ load_error = FALSE
    /\ text_area = EmptyStr
    /\ url_input = [raw |-> "", host |-> ""]
    /\ button = FALSE
    /\ text_input = EmptyStr
    /\ method = 1
    /\ attempts = <<>>
    /\ extract_state = "idle"
    /\ article_text = None
    /\ status = "none"
    /\ warning = FALSE
    /\ result = NoResult
    /\ calls = <<>>

\* load_model() answered from the st.cache_resource cache: its body does not run.
LoadModelCached ==
    /\ pc = "load"
    /\ cache
    /\ loaded' = "ok"
    /\ pc' = "main"
    /\ calls' = Append(calls, "load_model")
    /\ UNCHANGED <<cache, load_error, text_area, url_input, button, text_input,
                   method, attempts, extract_state, article_text, status,
                   warning, result>>

\* Both joblib.load calls succeed; the pair is cached and bound at line 28.
LoadModelOk ==
    /\ pc = "load"
    /\ ~cache
    /\ cache' = TRUE
    /\ loaded' = "ok"
    /\ pc' = "main"
    /\ calls' = Append(calls, "load_model")
    /\ UNCHANGED <<load_error, text_area, url_input, button, text_input,
                   method, attempts, extract_state, article_text, status,
                   warning, result>>

\* The same without st.stop(): the script goes on after the error message.
LoadModelFailNoStop ==
    /\ pc = "load"
    /\ ~cache
    /\ loaded' = "failed"
    /\ load_error' = TRUE
    /\ pc' = "main"
    /\ calls' = Append(calls, "load_model")
    /\ UNCHANGED <<cache, text_area, url_input, button, text_input,
                   method, attempts, extract_state, article_text, status,
                   warning, result>>

\* A joblib.load raises (missing or corrupt file): st.error, then st.stop()
\* ends the script run. Nothing is cached.
LoadModelFail ==
    /\ pc = "load"
    /\ ~cache
    /\ loaded' = "failed"
    /\ load_error' = TRUE
    /\ pc' = "stopped"
    /\ calls' = Append(calls, "load_model")
    /\ UNCHANGED <<cache, text_area, url_input, button, text_input,
                   method, attempts, extract_state, article_text, status,
                   warning, result>>

\* main() up to line 142: header, sidebar and the widgets, whose values are
\* what the user entered before this run.
Main ==
    /\ pc = "main"
    /\ \E t \in PastedTexts, u \in Urls, b \in BOOLEAN :
          /\ text_area' = t
          /\ text_input' = t
          /\ url_input' = u
          /\ button' = b
    /\ pc' = "tab2"
    /\ calls' = Append(calls, "main")
    /\ UNCHANGED <<cache, loaded, load_error, method, attempts, extract_state,
                   article_text, status, warning, result>>

\* line 143 with no URL entered
UrlEmpty ==
    /\ pc = "tab2"
    /\ ~UrlGiven(url_input)
    /\ pc' = "analyze"
    /\ UNCHANGED <<cache, loaded, load_error, text_area, url_input, button,
                   text_input, method, attempts, extract_state, article_text,
                   status, warning, result, calls>>

\* lines 143-147 and 41-48: extract_text_from_url(url_input) is called.
ExtractStart ==
    /\ pc = "tab2"
    /\ UrlGiven(url_input)
    /\ method' = 1
    /\ extract_state' = "running"
    /\ pc' = "extract"
    /\ calls' = Append(calls, "extract_text_from_url")
    /\ UNCHANGED <<cache, loaded, load_error, text_area, url_input, button,
                   text_input, attempts, article_text, status, warning, result>>

\* One iteration of the for loop of lines 50-56, and line 57 after the last.
ExtractStep ==
    /\ pc = "extract"
    /\ \E o \in Outcomes(extraction_methods[method]) :
          /\ attempts' = Append(attempts,
                                [method |-> extraction_methods[method], outcome |-> o])
          /\ IF o.kind = "return" /\ Sufficient(o.text)
             THEN /\ article_text' = o.text
                  /\ extract_state' = "returned"
                  /\ pc' = "after_extract"
                  /\ calls' = calls \o <<extraction_methods[method], "extract_return">>
                  /\ UNCHANGED method
             ELSE IF o.kind = "raise" /\ ~Catches(o.exc)
             THEN /\ extract_state' = "raised"
                  /\ pc' = "after_extract"
                  /\ calls' = calls \o <<extraction_methods[method], "extract_raise">>
                  /\ UNCHANGED <<article_text, method>>
             ELSE IF method < Len(extraction_methods)
             THEN /\ method' = method + 1
                  /\ calls' = Append(calls, extraction_methods[method])
                  /\ UNCHANGED <<article_text, extract_state, pc>>
             ELSE /\ article_text' = None
                  /\ extract_state' = "returned"
                  /\ pc' = "after_extract"
                  /\ calls' = calls \o <<extraction_methods[method], "extract_return">>
                  /\ UNCHANGED method
    /\ UNCHANGED <<cache, loaded, load_error, text_area, url_input, button,
                   text_input, status, warning, result>>

\* lines 149-159
AfterExtract ==
    /\ pc = "after_extract"
    /\ IF extract_state = "raised"
       THEN /\ status' = "exception"
            /\ UNCHANGED text_input
       ELSE IF Truthy(article_text)
       THEN /\ text_input' = article_text
            /\ status' = "complete"
       ELSE /\ status' = "error"
            /\ UNCHANGED text_input
    /\ pc' = "analyze"
    /\ UNCHANGED <<cache, loaded, load_error, text_area, url_input, button,
                   method, attempts, extract_state, article_text, warning,
                   result, calls>>

\* line 162 with the button not pressed
AnalyzeNotPressed ==
    /\ pc = "analyze"
    /\ ~button
    /\ pc' = "done"
    /\ UNCHANGED <<cache, loaded, load_error, text_area, url_input, button,
                   text_input, method, attempts, extract_state, article_text,
                   status, warning, result, calls>>

\* lines 163-164
AnalyzeWarn ==
    /\ pc = "analyze"
    /\ button
    /\ IsBlank(text_input)
    /\ warning' = TRUE
    /\ pc' = "done"
    /\ UNCHANGED <<cache, loaded, load_error, text_area, url_input, button,
                   text_input, method, attempts, extract_state, article_text,
                   status, result, calls>>

\* The same with classify_article called once for the prediction and once
\* more for the probabilities.
AnalyzeClassifyTwice ==
    /\ pc = "analyze"
    /\ button
    /\ ~IsBlank(text_input)
    /\ \E p1 \in Probs : result' = Display(text_input, p1)
    /\ calls' = calls \o <<"classify_article", "classify_article">>
    /\ pc' = "done"
    /\ UNCHANGED <<cache, loaded, load_error, text_area, url_input, button,
                   text_input, method, attempts, extract_state, article_text,
                   status, warning>>

\* lines 165-261: classify_article(text_input) and the results display
AnalyzeClassify ==
    /\ pc = "analyze"
    /\ button
    /\ ~IsBlank(text_input)
    /\ \E p1 \in Probs : result' = Display(text_input, p1)
    /\ calls' = Append(calls, "classify_article")
    /\ pc' = "done"
    /\ UNCHANGED <<cache, loaded, load_error, text_area, url_input, button,
                   text_input, method, attempts, extract_state, article_text,
                   status, warning>>

\* Streamlit runs the script again from the top; the cache is all that stays.
Rerun ==
    /\ pc \in {"done", "stopped"}
    /\ pc' = "load"
    /\ loaded' = "pending"
    /\ load_error' = FALSE
    /\ text_area' = EmptyStr
    /\ url_input' = [raw |-> "", host |-> ""]
    /\ button' = FALSE
    /\ text_input' = EmptyStr
    /\ method' = 1
    /\ attempts' = <<>>
    /\ extract_state' = "idle"
    /\ article_text' = None
    /\ status' = "none"
    /\ warning' = FALSE
    /\ result' = NoResult
    /\ calls' = <<>>
    /\ UNCHANGED cache

Next ==
    \/ LoadModelCached
    \/ LoadModelOk
    \/ LoadModelFail
    \/ Main
    \/ UrlEmpty
    \/ ExtractStart
    \/ ExtractStep
    \/ AfterExtract
    \/ AnalyzeNotPressed
    \/ AnalyzeWarn
    \/ AnalyzeClassify
    \/ Rerun

Spec == Init /\ [][Next]_vars

-----------------------------------------------------------------------------
(* Properties *)

Count(seq, x) == Cardinality({i \in DOMAIN seq : seq[i] = x})

ExtractorCalls == {"newspaper_extract", "bs4_extract"}

ExtractEvents ==
    ExtractorCalls \cup {"extract_text_from_url", "extract_return", "extract_raise"}

Finished == extract_state \in {"returned", "raised"}

ExtractionFailed == extract_state = "returned" /\ article_text.none

Classified == Count(calls, "classify_article") > 0

Raised(i) == attempts[i].outcome.kind = "raise"

\* C1: in a call of extract_text_from_url the primary extractor
\* (newspaper_extract) is attempted first and exactly once, the secondary one
\* (bs4_extract) at most once and only after the primary attempt raised or
\* returned text that failed the sufficiency test, and nothing is attempted
\* after the secondary attempt or after an attempt whose text was sufficient.
C1_ExtractorOrder ==
    /\ Len(attempts) <= 2
    /\ \A i \in DOMAIN attempts :
          attempts[i].method = IF i = 1 THEN "newspaper_extract" ELSE "bs4_extract"
    /\ \A i \in DOMAIN attempts :
          i < Len(attempts) => Raised(i) \/ ~Sufficient(attempts[i].outcome.text)
    /\ Finished => /\ Count(calls, "newspaper_extract") = 1
                   /\ Count(calls, "bs4_extract") <= 1
                   /\ Len(attempts) >= 1
    /\ \A i \in DOMAIN calls :
          calls[i] = "bs4_extract" => i > 1 /\ calls[i - 1] = "newspaper_extract"

\* The secondary extractor ran after a primary attempt that returned too
\* little text, and the call is over.
C1_Witness ==
    /\ Finished
    /\ Len(attempts) = 2
    /\ ~Raised(1)
    /\ attempts[1].outcome.text.words = 10

\* C2: an extractor's result is passed over exactly when the extractor raised
\* or returned fewer than 50 words, a result of 50 words or more (exactly 50
\* included) is returned, and None is returned only when every extractor
\* raised or returned fewer than 50 words.
C2_FallThroughBelow50 ==
    Finished =>
        /\ \A i \in DOMAIN attempts :
              (i < Len(attempts) \/ article_text.none)
                 <=> (Raised(i) \/ attempts[i].outcome.text.words < 50)
        /\ ~article_text.none =>
              /\ article_text = attempts[Len(attempts)].outcome.text
              /\ article_text.words >= 50
        /\ article_text.none =>
              /\ Len(attempts) = Len(extraction_methods)
              /\ \A i \in DOMAIN attempts :
                    Raised(i) \/ attempts[i].outcome.text.words < 50

\* C3 as stated: a request whose URL extraction failed never calls
\* classify_article, whatever else was entered.
C3_NoClassifyAfterFailedExtraction == ExtractionFailed => ~Classified

\* C3 amended: a request whose URL extraction failed calls classify_article
\* only when Analyze was pressed and the text tab holds pasted text that is
\* not blank, and then on that pasted text; with the text tab empty or all
\* whitespace it does not call it, and Analyze gives the warning.
C3_FailedExtractionClassifiesPastedOnly ==
    ExtractionFailed =>
        /\ text_area.words = 0 => ~Classified /\ ~result.shown
        /\ Classified => button /\ text_area.words > 0 /\ result.text = text_area
        /\ (pc = "done" /\ button /\ text_area.words = 0) => warning

\* Extraction failed, the text tab holds blanks only, Analyze was pressed.
C3_Witness ==
    /\ pc = "done"
    /\ ExtractionFailed
    /\ button
    /\ text_area.chars > 0
    /\ text_area.words = 0
    /\ warning

\* C4: no failure of an extraction attempt leaves extract_text_from_url: the
\* call ends, after at most one attempt per method, by returning text or
\* None, and main's handler for an exception of the call is never taken.
C4_NoExceptionEscapes ==
    /\ extract_state # "raised"
    /\ status # "exception"
    /\ Count(calls, "extract_raise") = 0
    /\ pc = "extract" => Len(attempts) < Len(extraction_methods)
    /\ pc = "after_extract" =>
          /\ extract_state = "returned"
          /\ article_text.none \/ Sufficient(article_text)
    /\ \A i \in DOMAIN attempts :
          (Raised(i) /\ i < Len(extraction_methods)) =>
             (Len(attempts) > i \/ pc = "extract")

\* Both extractors raised and the call returned None.
C4_Witness ==
    /\ pc = "after_extract"
    /\ Len(attempts) = 2
    /\ Raised(1)
    /\ Raised(2)
    /\ attempts[2].outcome.exc = "Timeout"
    /\ ExtractionFailed

\* C5 as stated: with a blank resolved text classify_article is never called
\* and the warning is the only outcome, and for a URL without a parseable
\* host no extractor is called.
C5_MalformedInputRejected ==
    /\ (pc = "done" /\ text_input.words = 0) =>
          /\ ~Classified
          /\ ~result.shown
          /\ button => warning
    /\ url_input.host = "" => attempts = <<>>

\* C5 amended: with a blank resolved text classify_article is never called
\* and pressing Analyze gives the warning and no result; the extractors are
\* called for every non-empty URL, with or without a parseable host, and for
\* an empty URL field no extractor is called.
C5_BlankTextRejectedAnyUrlFetched ==
    /\ (pc = "done" /\ text_input.words = 0) =>
          /\ ~Classified
          /\ ~result.shown
          /\ button => warning
    /\ pc \in {"after_extract", "analyze", "done"} =>
          (attempts # <<>> <=> url_input.raw # "")
    /\ url_input.raw = "" => attempts = <<>> /\ extract_state = "idle"

\* A URL without a host was handed to the extractors, nothing came of it, the
\* text tab was empty and Analyze gave the warning.
C5_Witness ==
    /\ pc = "done"
    /\ url_input.raw # ""
    /\ url_input.host = ""
    /\ Len(attempts) = 2
    /\ text_input.chars = 0
    /\ warning

\* C6: in a run in which load_model fails main is never entered, so there is
\* no extraction and no classify_article call, and the failure shows as the
\* load error, which no run shows together with a per-request outcome.
C6_LoadFailureStopsRun ==
    /\ loaded = "failed" =>
          /\ pc = "stopped"
          /\ calls = <<"load_model">>
          /\ attempts = <<>>
          /\ load_error
    /\ load_error =>
          /\ loaded = "failed"
          /\ ~warning
          /\ ~result.shown
          /\ status = "none"
    /\ Count(calls, "main") > 0 => loaded = "ok" /\ cache

\* load_model failed in this run.
C6_Witness == pc = "stopped" /\ loaded = "failed" /\ load_error /\ ~cache

\* C7: a run of main calls classify_article at most once, every call of
\* extract_text_from_url of the run has returned before it, and no extraction
\* event follows it.
C7_OneClassificationAfterExtraction ==
    /\ Count(calls, "classify_article") <= 1
    /\ Count(calls, "extract_text_from_url") <= 1
    /\ \A i, j \in DOMAIN calls :
          (calls[i] = "classify_article" /\ calls[j] \in ExtractEvents) => j < i
    /\ Classified =>
          /\ extract_state \in {"idle", "returned"}
          /\ Count(calls, "extract_text_from_url") = Count(calls, "extract_return")
          /\ result.shown

\* The extracted text of a URL was classified.
C7_Witness ==
    /\ pc = "done"
    /\ Classified
    /\ Len(attempts) = 2
    /\ result.text = article_text

\* C8: a result of the statistical classifier with confidence below 0.65 is
\* Uncertain whichever class is more probable, and one with confidence 0.65
\* or more is the more probable class, Real or Fake.
C8_TriStateOutcome ==
    result.shown =>
        /\ result.confidence < 6500 => result.verdict = "Uncertain"
        /\ result.confidence >= 6500 => result.verdict \in {"Real", "Fake"}

\* The host lists of the domain reputation filter.
TrustedDomains == {"bbc.com"}

SuspiciousDomains == {"infowars.com"}

\* C9: for a URL whose normalised host is in the trusted list the run gives
\* Real with confidence 1.0 without calling an extractor or the classifier,
\* and for one whose host is in the suspicious list it gives Fake with
\* confidence 1.0 the same way.
C9_DomainListShortCircuit ==
    url_input.host \in TrustedDomains \cup SuspiciousDomains =>
        /\ attempts = <<>>
        /\ ~Classified
        /\ (pc = "done" /\ button) =>
              /\ result.shown
              /\ result.confidence = 10000
              /\ result.verdict =
                    IF url_input.host \in TrustedDomains THEN "Real" ELSE "Fake"

\* C10: for a resolved text of fewer than 50 words that contains an alarm
\* keyword the result is Fake with confidence 0.9 and the statistical
\* classifier is not called.
C10_HeuristicOverride ==
    (pc = "done" /\ button /\ text_input.words < 50 /\ text_input.alarm) =>
        /\ result.shown
        /\ result.verdict = "Fake"
        /\ result.confidence = 9000
        /\ ~Classified

====
